---- MODULE Spec2Model ----
(***************************************************************************)
(* Model of the Vapi webhook (api/vapi/webhook.js): the event router, the  *)
(* two-version Cal.com availability and booking logic, the SMS helper and  *)
(* the KV call store.                                                      *)
(*                                                                         *)
(* Every helper of the source is an operator that returns the value the    *)
(* function returns together with the downstream calls it made, in order   *)
(* (field "trace") and the records it handed to storeCall (field "recs").  *)
(* The outcomes of the downstream services are inputs of the operators.    *)
(***************************************************************************)
EXTENDS Integers, Sequences, FiniteSets, TLC

VARIABLES
  env,        \* process.env and twilioClient: what is configured
  pc,         \* where the invocation is: "idle", "loop" or "done"
  req,        \* the request being handled
  toolCalls,  \* the array the batch loop iterates
  results,    \* the results pushed so far
  trace,      \* the calls the last dispatched function made, in order
  recs,       \* the records the last dispatched function handed to storeCall
  resp,       \* the response sent
  fnIn,       \* what the downstream services answered to the last function
  fnOut,      \* what the last dispatched function returned
  log,        \* the downstream calls of the batch so far, each with its tool call
  sends,      \* the two notification sends of a booking under way
  kvRecent,   \* the KV list recent_calls, head first
  kvRecords,  \* the KV entries written by SET: key and value
  pushed,     \* every key LPUSH added to recent_calls, newest first
  persist     \* the invocations of storeCall, each with its position

vars == <<env, pc, req, toolCalls, results, trace, recs, resp, fnIn, fnOut,
          log, sends, kvRecent, kvRecords, pushed, persist>>

(***************************************************************************)
(* Bounds of the model.                                                    *)
(***************************************************************************)
MaxBatch == 2
MaxGroups == 2
MaxGroupLen == 2

(***************************************************************************)
(* Small helpers.                                                          *)
(***************************************************************************)
Min(a, b) == IF a <= b THEN a ELSE b

SeqsUpTo(S, n) == UNION {[1..k -> S] : k \in 0..n}

RECURSIVE Flatten(_)
Flatten(ss) == IF ss = <<>> THEN <<>> ELSE Head(ss) \o Flatten(Tail(ss))

Count(s, x) == Cardinality({k \in DOMAIN s : s[k] = x})

Positions(s, x) == {k \in DOMAIN s : s[k] = x}

(***************************************************************************)
(* Caller-facing messages.  A message is a record: a text and, for the     *)
(* availability message, the display strings that the text enumerates.     *)
(***************************************************************************)
Msg(t) == [text |-> t, shown |-> <<>>]

MsgTrouble == Msg("I'm having trouble checking the calendar right now.")
MsgNoOpenings == Msg("No openings this week.")
MsgIveGot(displays) == [text |-> "I've got: ... Which works best?", shown |-> displays]
MsgClarify == Msg("I need a few more details before booking.")
MsgHiccup == Msg("The booking system had a hiccup.")
MsgNotThrough == Msg("The booking didn't go through.")
MsgBooked == Msg("Booked. Confirmation texts sent.")
MsgBookedOwnerConfirms == Msg("Booked. They'll confirm with you directly.")
MsgAlertSent == Msg("I've sent an urgent alert.")
MsgUnknownFunction(name) == Msg("Unknown function: " \o name)
NoMsg == Msg("")

(***************************************************************************)
(* Labels of the downstream calls.                                         *)
(***************************************************************************)
SchedulingCalls == {"cal:v2:slots", "cal:v1:availability", "cal:v2:bookings", "cal:v1:bookings"}
NotificationCalls == {"twilio:customer", "twilio:owner"}
StoreCalls == {"kv:set", "kv:lpush", "kv:ltrim"}

(***************************************************************************)
(* storeCall(callData).  st is the outcome of the three KV requests, in    *)
(* order: "ok", "err" (the store answers with an error status; fetch does  *)
(* not reject) or "throw" (transport error; fetch rejects).                *)
(***************************************************************************)
KvSteps == <<"kv:set", "kv:lpush", "kv:ltrim">>

KvDone(st) ==
  IF \E k \in 1..3 : st[k] = "throw"
    THEN CHOOSE k \in 1..3 : st[k] = "throw" /\ \A j \in 1..(k - 1) : st[j] # "throw"
    ELSE 3

storeCall(e, callData, st) ==
  IF e.kv
    THEN [ret |-> \A k \in 1..3 : st[k] # "throw",
          trace |-> SubSeq(KvSteps, 1, KvDone(st)),
          recs |-> <<callData>>]
    ELSE [ret |-> FALSE, trace |-> <<>>, recs |-> <<callData>>]

(***************************************************************************)
(* sendSMS(to, body).  sms is the outcome of messages.create.              *)
(***************************************************************************)
sendSMS(e, to, sms) ==
  IF ~e.twilio
    THEN [ret |-> FALSE, trace |-> <<"sendSMS:" \o to>>]
    ELSE [ret |-> (sms = "ok"), trace |-> <<"sendSMS:" \o to, "twilio:" \o to>>]

(***************************************************************************)
(* Responses of the scheduling provider.  A response is the outcome of one *)
(* fetch: "throw" (fetch or json() rejects), "notok" (error status, with a *)
(* JSON body) or "ok" (2xx, with a JSON body).                             *)
(*                                                                         *)
(* A slot grouping is the value of "slots": an object from date keys to    *)
(* lists of times, kept as the sequence of its entries in the order        *)
(* Object.entries yields them.  A group whose value is not an array has    *)
(* isArray = FALSE.                                                        *)
(***************************************************************************)
EmergencyDays == 2
NormalDays == 7
SlotCap == 3

Group(g, n) == [isArray |-> TRUE, times |-> [j \in 1..n |-> 10 * g + j]]
NotArrayGroup == [isArray |-> FALSE, times |-> <<>>]

GroupingOf(sz) ==
  [g \in DOMAIN sz |-> IF sz[g] < 0 THEN NotArrayGroup ELSE Group(g, sz[g])]

\* groupings of up to maxGroups date keys with up to maxLen times each, and
\* one with a date key whose value is not an array
Groupings(maxGroups, maxLen) ==
  {GroupingOf(sz) : sz \in SeqsUpTo(0..maxLen, maxGroups)} \cup {GroupingOf(<<-1, maxLen>>)}

NoData == [truthy |-> FALSE, hasSlots |-> FALSE, slots |-> <<>>]
DataNoSlots == [truthy |-> TRUE, hasSlots |-> FALSE, slots |-> <<>>]
DataSlots(G) == [truthy |-> TRUE, hasSlots |-> TRUE, slots |-> G]

\* JSON null, or no body at all (the variable data is still undefined)
NullBody == [truthy |-> FALSE, data |-> NoData, hasSlots |-> FALSE, slots |-> <<>>]
EmptyBody == [truthy |-> TRUE, data |-> NoData, hasSlots |-> FALSE, slots |-> <<>>]
NestedBody(d) == [truthy |-> TRUE, data |-> d, hasSlots |-> FALSE, slots |-> <<>>]
TopBody(G) == [truthy |-> TRUE, data |-> NoData, hasSlots |-> TRUE, slots |-> G]

AvailBodies(GS) ==
  {NullBody, EmptyBody, NestedBody(DataNoSlots)}
    \cup {NestedBody(DataSlots(G)) : G \in GS}
    \cup {TopBody(G) : G \in GS}

Throw == [kind |-> "throw", body |-> NullBody]

\* the newer API: an error status discards the body
AvailResponsesV2(GS) ==
  {Throw, [kind |-> "notok", body |-> EmptyBody]}
    \cup {[kind |-> "ok", body |-> b] : b \in AvailBodies(GS)}

\* the older API: the body is read whatever the status
AvailResponsesV1(GS) ==
  {Throw, [kind |-> "notok", body |-> EmptyBody]}
    \cup {[kind |-> "notok", body |-> TopBody(G)] : G \in GS}
    \cup {[kind |-> "ok", body |-> b] : b \in AvailBodies(GS)}

\* data?.data?.slots || data?.slots || {}
SlotsObj(data) ==
  IF data.truthy /\ data.data.truthy /\ data.data.hasSlots THEN data.data.slots
  ELSE IF data.truthy /\ data.hasSlots THEN data.slots
  ELSE <<>>

\* the text toLocaleDateString/toLocaleTimeString render for a time
Display(t) == <<"display", t>>

SlotOf(t) == [display |-> Display(t), iso |-> t]

\* Array.isArray(times) ? times : []
TimesOf(group) == IF group.isArray THEN group.times ELSE <<>>

\* Object.entries(slotsObj).flatMap(...)
FlatSlots(slotsObj) ==
  LET all == Flatten([g \in DOMAIN slotsObj |-> TimesOf(slotsObj[g])])
  IN [k \in DOMAIN all |-> SlotOf(all[k])]

\* a slice one entry too long
Slice3_OffByOne(s) == SubSeq(s, 1, Min(SlotCap + 1, Len(s)))

\* .slice(0, 3)
Slice3(s) == SubSeq(s, 1, Min(SlotCap, Len(s)))

\* if (!data || !data.data): the older API is queried
AvailNeedsV1(data) == ~data.truthy \/ ~data.data.truthy

Window(urgency) == IF urgency = "emergency" THEN EmergencyDays ELSE NormalDays

AvailParse(data, days, tr) ==
  LET slotsObj == SlotsObj(data)
      slots == Slice3(FlatSlots(slotsObj))
  IN IF Len(slotsObj) = 0
       THEN [available |-> FALSE, slots |-> <<>>, message |-> MsgNoOpenings,
             days |-> days, trace |-> tr, recs |-> <<>>]
       ELSE [available |-> TRUE, slots |-> slots,
             message |-> MsgIveGot([k \in DOMAIN slots |-> slots[k].display]),
             days |-> days, trace |-> tr, recs |-> <<>>]

getAvailability(urgency, v2, v1) ==
  LET days == Window(urgency)
      data == IF v2.kind = "ok" THEN v2.body ELSE NullBody
  IN IF AvailNeedsV1(data)
       THEN IF v1.kind = "throw"
              THEN [available |-> FALSE, slots |-> <<>>, message |-> MsgTrouble,
                    days |-> days, trace |-> <<"cal:v2:slots", "cal:v1:availability">>,
                    recs |-> <<>>]
              ELSE AvailParse(v1.body, days, <<"cal:v2:slots", "cal:v1:availability">>)
       ELSE AvailParse(data, days, <<"cal:v2:slots">>)

(***************************************************************************)
(* bookAppointment(params).  A booking response body carries an id under   *)
(* data.id, under id, under both or under neither; data may be present     *)
(* without an id.                                                          *)
(***************************************************************************)
BookingIds == {"bk1"}
NoId == "none"

BookBody(t, d, dataId, topId) == [truthy |-> t, hasData |-> d, dataId |-> dataId, id |-> topId]
NoBookBody == BookBody(FALSE, FALSE, NoId, NoId)

BookBodies ==
  {NoBookBody, BookBody(TRUE, FALSE, NoId, NoId), BookBody(TRUE, TRUE, NoId, NoId)}
    \cup {BookBody(TRUE, TRUE, b, NoId) : b \in BookingIds}
    \cup {BookBody(TRUE, FALSE, NoId, b) : b \in BookingIds}
    \cup {BookBody(TRUE, TRUE, NoId, b) : b \in BookingIds}

BookThrow == [kind |-> "throw", body |-> NoBookBody]

\* the newer API: an error status discards the body
BookResponsesV2 ==
  {BookThrow, [kind |-> "notok", body |-> BookBody(TRUE, FALSE, NoId, NoId)]}
    \cup {[kind |-> "ok", body |-> b] : b \in BookBodies}

\* the older API: the body is read whatever the status
BookResponsesV1 ==
  {BookThrow} \cup {[kind |-> k, body |-> b] : k \in {"ok", "notok"}, b \in BookBodies}

\* if (!result || (!result.data && !result.id)): the older API is tried
BookNeedsV1(result) == ~result.truthy \/ (~result.hasData /\ result.id = NoId)

\* result?.data?.id || result?.id
BookingIdOf(result) ==
  IF result.truthy /\ result.hasData /\ result.dataId # NoId THEN result.dataId
  ELSE IF result.truthy THEN result.id
  ELSE NoId

BookingRecord(bookingId, customerSent, ownerSent) ==
  [type |-> "booking", id |-> "booking-" \o bookingId,
   sms_customer |-> customerSent, sms_owner |-> ownerSent]

\* a booking that counts as made only when the caller's text went out
BookFinish_NeedsCustomerText(e, result, tr, smsC, smsO, st) ==
  LET bookingId == BookingIdOf(result)
      c == sendSMS(e, "customer", smsC)
      o == sendSMS(e, "owner", smsO)
      s == storeCall(e, BookingRecord(bookingId, c.ret, o.ret), st)
  IN IF bookingId # NoId /\ c.ret
       THEN [success |-> TRUE, message |-> MsgBooked,
             trace |-> tr \o c.trace \o o.trace \o <<"storeCall">> \o s.trace,
             recs |-> s.recs]
       ELSE [success |-> FALSE, message |-> MsgNotThrough,
             trace |-> tr \o (IF bookingId # NoId THEN c.trace ELSE <<>>), recs |-> <<>>]

BookFinish(e, result, tr, smsC, smsO, st) ==
  LET bookingId == BookingIdOf(result)
      c == sendSMS(e, "customer", smsC)
      o == sendSMS(e, "owner", smsO)
      s == storeCall(e, BookingRecord(bookingId, c.ret, o.ret), st)
  IN IF bookingId # NoId
       THEN [success |-> TRUE,
             message |-> IF c.ret THEN MsgBooked ELSE MsgBookedOwnerConfirms,
             trace |-> tr \o c.trace \o o.trace \o <<"storeCall">> \o s.trace,
             recs |-> s.recs]
       ELSE [success |-> FALSE, message |-> MsgNotThrough, trace |-> tr, recs |-> <<>>]

bookAppointment(e, params, v2, v1, smsC, smsO, st) ==
  LET result == IF v2.kind = "ok" THEN v2.body ELSE NoBookBody
  IN IF BookNeedsV1(result)
       THEN IF v1.kind = "throw"
              THEN [success |-> FALSE, message |-> MsgHiccup,
                    trace |-> <<"cal:v2:bookings", "cal:v1:bookings">>, recs |-> <<>>]
              ELSE BookFinish(e, v1.body, <<"cal:v2:bookings", "cal:v1:bookings">>,
                              smsC, smsO, st)
       ELSE BookFinish(e, result, <<"cal:v2:bookings">>, smsC, smsO, st)

(***************************************************************************)
(* Requests.  A header that is not sent is the empty string (falsy, like   *)
(* undefined).  Tool-call arguments arrive as an object, as a JSON string  *)
(* of an object, or as a string that is not JSON; "fields" are the         *)
(* parameters that are present (truthy).                                   *)
(***************************************************************************)
Secret == "s3cret"
HeaderValues == {"", Secret, "wrong"}

Fields == {"caller_name", "phone", "appointment_time", "job_description"}
RequiredByHandler == {"caller_name", "phone", "appointment_time"}

Args(form, fields) == [form |-> form, fields |-> fields, urgency |-> "flexible"]

Kind(name, args) == [name |-> name, args |-> args]

\* the calls the batches of the router's runs are made of
RouterKinds ==
  {Kind("check_availability", Args("object", {})),
   Kind("book_appointment", Args("object", Fields)),
   Kind("book_appointment", Args("object", Fields \ {"phone"})),
   Kind("book_appointment", Args("malformed", {})),
   Kind("send_emergency_alert", Args("object", {"caller_name", "phone"})),
   Kind("other_fn", Args("object", {}))}

\* every call of the single-call runs
AllKinds ==
  RouterKinds
    \cup {Kind("book_appointment", Args("string", Fields)),
          Kind("book_appointment", Args("object", {})),
          Kind("send_emergency_alert", Args("string", {}))}
    \cup {Kind("book_appointment", Args(f, Fields \ {x})) :
            f \in {"object", "string"}, x \in Fields}

\* tc.id of the call at position k of a batch
CallId(k) == "call-" \o ToString(k)

ToolCall(k, kind) == [id |-> CallId(k), name |-> kind.name, args |-> kind.args]

BatchOf(kinds) == [k \in DOMAIN kinds |-> ToolCall(k, kinds[k])]

Batches(KS, maxLen) == {BatchOf(kinds) : kinds \in UNION {[1..n -> KS] : n \in 1..maxLen}}

NoList == [present |-> FALSE, calls |-> <<>>]
List(cs) == [present |-> TRUE, calls |-> cs]

NoFn == [hasName |-> FALSE, name |-> "", hasParams |-> FALSE, fields |-> {}]
Fn(name, hasParams, fields) ==
  [hasName |-> TRUE, name |-> name, hasParams |-> hasParams, fields |-> fields]

Types == {"tool-calls", "function-call", "end-of-call-report", "status-update", "other"}

Body(hasMessage, type, mList, tList, fn, summary) ==
  [present |-> TRUE, hasMessage |-> hasMessage, type |-> type, mList |-> mList,
   tList |-> tList, functionCall |-> fn, summary |-> summary]

\* no body was sent: req.body is undefined
AbsentBody ==
  [present |-> FALSE, hasMessage |-> FALSE, type |-> "other", mList |-> NoList,
   tList |-> NoList, functionCall |-> NoFn, summary |-> {}]

OneCall == BatchOf(<<Kind("other_fn", Args("object", {}))>>)

\* batches under message.toolCallList with every type tag, batches under the
\* top-level toolCallList with and without a message, and an empty
\* message.toolCallList beside a top-level list
BatchBodies(BS) ==
  {Body(TRUE, t, List(b), NoList, NoFn, {}) : t \in Types, b \in BS}
    \cup {Body(m, "other", NoList, List(b), NoFn, {}) : m \in BOOLEAN, b \in BS}
    \cup {Body(TRUE, t, List(<<>>), tl, NoFn, {}) :
            t \in Types, tl \in {NoList, List(<<>>), List(OneCall)}}

LegacyFns ==
  {NoFn, Fn("check_availability", TRUE, {}), Fn("send_emergency_alert", TRUE, {"phone"}),
   Fn("send_emergency_alert", FALSE, {}), Fn("other_fn", TRUE, {}),
   Fn("book_appointment", FALSE, {}), Fn("book_appointment", TRUE, Fields)}
    \cup {Fn("book_appointment", TRUE, Fields \ {f}) : f \in Fields}

LegacyBodies == {Body(TRUE, "function-call", NoList, NoList, f, {}) : f \in LegacyFns}

ReportBodies ==
  {Body(TRUE, "end-of-call-report", NoList, NoList, NoFn, ks) :
     ks \in {{}, {"scheduled"}, {"booked"}, {"confirmed"}, {"urgent"},
             {"scheduled", "emergency"}, {"SCHEDULED"}, {"Scheduled", "URGENT"}}}

OtherBodies ==
  {AbsentBody, Body(FALSE, "other", NoList, NoList, NoFn, {}),
   Body(TRUE, "other", NoList, NoList, NoFn, {}),
   Body(TRUE, "status-update", NoList, NoList, NoFn, {}),
   Body(TRUE, "tool-calls", NoList, NoList, NoFn, {})}

Request(method, xSecret, xSignature, body) ==
  [method |-> method, xSecret |-> xSecret, xSignature |-> xSignature, body |-> body]

NoRequest == Request("", "", "", AbsentBody)

\* the payloads every combination of the two headers is sent with
ProbeBodies ==
  {AbsentBody,
   Body(TRUE, "tool-calls",
        List(BatchOf(<<Kind("send_emergency_alert", Args("object", {"phone"}))>>)),
        NoList, NoFn, {}),
   Body(TRUE, "function-call", NoList, NoList, Fn("book_appointment", TRUE, Fields), {}),
   Body(TRUE, "end-of-call-report", NoList, NoList, NoFn, {"scheduled"})}

\* the router's runs: the other methods, every header combination on the
\* probe payloads, and every payload with the secret in x-vapi-secret
RouterRequests ==
  {Request(m, "", "", AbsentBody) : m \in {"OPTIONS", "GET"}}
    \cup {Request("POST", h1, h2, b) : h1 \in HeaderValues, h2 \in HeaderValues,
                                       b \in ProbeBodies}
    \cup {Request("POST", Secret, "", b) :
            b \in BatchBodies(Batches(RouterKinds, MaxBatch)) \cup LegacyBodies
                    \cup ReportBodies \cup OtherBodies}

\* the single-call runs: one tool call or one legacy function call
CallRequests ==
  {Request("POST", Secret, "", Body(TRUE, "tool-calls", List(b), NoList, NoFn, {})) :
     b \in Batches(AllKinds, 1)}
    \cup {Request("POST", Secret, "", b) : b \in LegacyBodies}

Envs == [secret : {"", Secret}, kv : BOOLEAN, twilio : BOOLEAN]
RouterEnvs == {e \in Envs : e.kv /\ e.twilio}
CallEnvs == {e \in Envs : e.secret = Secret}

(***************************************************************************)
(* Responses.                                                              *)
(***************************************************************************)
Response(status, body) == [status |-> status, body |-> body]
NoResponse == Response(0, [kind |-> "none"])
RespEnd == Response(200, [kind |-> "end"])
RespError(status, error) == Response(status, [kind |-> "error", error |-> error])
RespResults(rs) == Response(200, [kind |-> "results", results |-> rs])
RespResult(r) == Response(200, [kind |-> "result", result |-> r])
RespReceived == Response(200, [kind |-> "received"])
RespOk == Response(200, [kind |-> "ok"])
RespInternal == RespError(500, "Internal server error")

(***************************************************************************)
(* handler: authentication and classification.                             *)
(***************************************************************************)
\* req.headers['x-vapi-secret'] || req.headers['x-vapi-signature']
IncomingSecret(r) == IF r.xSecret # "" THEN r.xSecret ELSE r.xSignature

\* a check that rejects a missing header only
Rejected401_MissingOnly(e, r) == e.secret # "" /\ IncomingSecret(r) = ""

\* if (process.env.VAPI_SECRET) { if (incomingSecret !== process.env.VAPI_SECRET) ...
Rejected401(e, r) == e.secret # "" /\ IncomingSecret(r) # e.secret

\* message?.toolCallList || req.body?.toolCallList || ... || null
ToolCallListOf(b) ==
  IF b.hasMessage /\ b.mList.present THEN b.mList
  ELSE IF b.tList.present THEN b.tList
  ELSE NoList

\* if (toolCallList && toolCallList.length > 0)
HasBatch(b) == ToolCallListOf(b).present /\ Len(ToolCallListOf(b).calls) > 0

\* const toolCalls = message.toolCallList || []
LoopList(b) == IF b.mList.present THEN b.mList.calls ELSE <<>>

\* message?.type
TypeOf(b) == IF b.hasMessage THEN b.type ELSE "undefined"

(***************************************************************************)
(* What the downstream services answer.  A specification draws the answers *)
(* from a record of sets D: the responses of the two availability          *)
(* endpoints and of the two booking endpoints, the outcomes of             *)
(* messages.create and the outcomes of the three KV requests.              *)
(***************************************************************************)
SmsOutcomes == {"ok", "throw"}
KvOutcomes == {<<"ok", "ok", "ok">>, <<"throw", "ok", "ok">>, <<"ok", "throw", "ok">>,
               <<"ok", "ok", "throw">>, <<"err", "ok", "ok">>}

FiveSlots == <<Group(1, 2), Group(2, 3)>>

\* the router's runs: each service answers well or not at all
RouterDownstream ==
  [availV2 |-> {Throw, [kind |-> "ok", body |-> NestedBody(DataSlots(FiveSlots))]},
   availV1 |-> {Throw, [kind |-> "ok", body |-> TopBody(<<>>)]},
   bookV2 |-> {BookThrow, [kind |-> "ok", body |-> BookBody(TRUE, TRUE, "bk1", NoId)]},
   bookV1 |-> {BookThrow, [kind |-> "ok", body |-> BookBody(TRUE, FALSE, NoId, "bk1")]},
   sms |-> SmsOutcomes,
   kv |-> {<<"ok", "ok", "ok">>, <<"throw", "ok", "ok">>}]

\* the single-call runs: every response shape
CallDownstream ==
  [availV2 |-> AvailResponsesV2({<<>>, FiveSlots}),
   availV1 |-> AvailResponsesV1({<<>>, FiveSlots}),
   bookV2 |-> BookResponsesV2,
   bookV1 |-> BookResponsesV1,
   sms |-> SmsOutcomes,
   kv |-> KvOutcomes]

NoDraw == [fn |-> "none"]

EmergencyRecord(alertSent) ==
  [type |-> "emergency", id |-> "emergency-now", alert_sent |-> alertSent]

\* an alert that owns up to a failed notification
raiseAlert_ReportsFailure(e, smsO, st) ==
  LET a == sendSMS(e, "owner", smsO)
      s == storeCall(e, EmergencyRecord(a.ret), st)
  IN [success |-> a.ret, message |-> IF a.ret THEN MsgAlertSent ELSE MsgTrouble,
      trace |-> a.trace \o <<"storeCall">> \o s.trace, recs |-> s.recs]

\* case 'send_emergency_alert' (both paths)
raiseAlert(e, smsO, st) ==
  LET a == sendSMS(e, "owner", smsO)
      s == storeCall(e, EmergencyRecord(a.ret), st)
  IN [success |-> TRUE, message |-> MsgAlertSent,
      trace |-> a.trace \o <<"storeCall">> \o s.trace, recs |-> s.recs]

\* a check that forgets the phone
MissingDetails_NoPhone(fields) == ~({"caller_name", "appointment_time"} \subseteq fields)

\* a check that requires the job description too
MissingDetails_Four(fields) == ~(Fields \subseteq fields)

\* if (!params.caller_name || !params.phone || !params.appointment_time)
MissingDetails(fields) == ~(RequiredByHandler \subseteq fields)

clarification == [success |-> FALSE, message |-> MsgClarify, trace |-> <<>>, recs |-> <<>>]

unknownFunction(name) ==
  [error |-> "Unknown function: " \o name, message |-> MsgUnknownFunction(name),
   trace |-> <<>>, recs |-> <<>>]

\* what the downstream services may answer to one dispatched function
Draws(D, name, fields) ==
  CASE name = "check_availability" ->
         {[fn |-> "getAvailability", v2 |-> v2, v1 |-> v1] :
            v2 \in D.availV2, v1 \in D.availV1}
    [] name = "book_appointment" /\ ~MissingDetails(fields) ->
         {[fn |-> "bookAppointment", v2 |-> x[1], v1 |-> x[2], smsC |-> x[3],
           smsO |-> x[4], st |-> x[5]] :
            x \in D.bookV2 \X D.bookV1 \X D.sms \X D.sms \X D.kv}
    [] name = "send_emergency_alert" ->
         {[fn |-> "raiseAlert", smsO |-> o, st |-> st] : o \in D.sms, st \in D.kv}
    [] OTHER -> {NoDraw}

\* the switch on the function name (both paths), given the answers d
dispatch(e, name, fields, urgency, d) ==
  CASE name = "check_availability" -> getAvailability(urgency, d.v2, d.v1)
    [] name = "book_appointment" ->
         IF MissingDetails(fields) THEN clarification
         ELSE bookAppointment(e, fields, d.v2, d.v1, d.smsC, d.smsO, d.st)
    [] name = "send_emergency_alert" -> raiseAlert(e, d.smsO, d.st)
    [] OTHER -> unknownFunction(name)

(***************************************************************************)
(* State machine of the handler.  One invocation at a time; the loop over  *)
(* a tool-call batch takes one step per call.                              *)
(***************************************************************************)
NoOut == [message |-> NoMsg, trace |-> <<>>, recs |-> <<>>]

\* no booking is sending its notifications
NoSends == [customer |-> "none", owner |-> "none", order |-> <<>>]

storeVars == <<kvRecent, kvRecords, pushed, persist>>

\* an empty store on which no storeCall runs
StoreAtRest ==
  /\ kvRecent = <<>>
  /\ kvRecords = {}
  /\ pushed = <<>>
  /\ persist = <<>>

InitWith(ES) ==
  /\ env \in ES
  /\ pc = "idle"
  /\ req = NoRequest
  /\ toolCalls = <<>>
  /\ results = <<>>
  /\ trace = <<>>
  /\ recs = <<>>
  /\ resp = NoResponse
  /\ fnIn = NoDraw
  /\ fnOut = NoOut
  /\ log = <<>>
  /\ sends = NoSends
  /\ StoreAtRest

\* an invocation that ends in the action that starts it; a request arrives
\* only when no invocation is under way
Answer(r, response, d, out) ==
  /\ req' = r
  /\ resp' = response
  /\ fnIn' = d
  /\ fnOut' = out
  /\ trace' = out.trace
  /\ recs' = out.recs
  /\ pc' = "done"
  /\ UNCHANGED <<env, toolCalls, results, log, sends, storeVars>>

Idle == pc = "idle"

Authorized(r) == r.method = "POST" /\ ~Rejected401(env, r)

\* if (req.method === 'OPTIONS') return res.status(200).end()
Options(R) ==
  /\ Idle
  /\ \E r \in R :
       /\ r.method = "OPTIONS"
       /\ Answer(r, RespEnd, NoDraw, NoOut)

\* if (req.method !== 'POST') return res.status(405)
MethodNotAllowed(R) ==
  /\ Idle
  /\ \E r \in R :
       /\ r.method \notin {"OPTIONS", "POST"}
       /\ Answer(r, RespError(405, "POST only"), NoDraw, NoOut)

Unauthorized(R) ==
  /\ Idle
  /\ \E r \in R :
       /\ r.method = "POST"
       /\ Rejected401(env, r)
       /\ Answer(r, RespError(401, "Unauthorized"), NoDraw, NoOut)

\* const { message } = req.body throws when there is no body
BodyFault(R) ==
  /\ Idle
  /\ \E r \in R :
       /\ Authorized(r)
       /\ ~r.body.present
       /\ Answer(r, RespInternal, NoDraw, NoOut)

\* a non-empty toolCallList was found; message.toolCallList throws when the
\* payload has no message
StartBatch(R) ==
  /\ Idle
  /\ \E r \in R :
       /\ Authorized(r)
       /\ r.body.present
       /\ HasBatch(r.body)
       /\ IF ~r.body.hasMessage
            THEN Answer(r, RespInternal, NoDraw, NoOut)
            ELSE /\ req' = r
                 /\ toolCalls' = LoopList(r.body)
                 /\ results' = <<>>
                 /\ pc' = "loop"
                 /\ UNCHANGED <<env, trace, recs, resp, fnIn, fnOut, log, sends, storeVars>>

\* results.push({ toolCallId: tc.id, result: resultMsg })
PushResult(rs, tc, out) == Append(rs, [toolCallId |-> tc.id, result |-> out.message])

\* the downstream calls of one tool call, each with the id of the tool call
Tagged(tc, tr) == [k \in DOMAIN tr |-> [id |-> tc.id, call |-> tr[k]]]

\* a loop out of which a transport error of the older availability API escapes
DispatchToolCall_Unguarded(D) ==
  /\ pc = "loop"
  /\ Len(results) < Len(toolCalls)
  /\ LET tc == toolCalls[Len(results) + 1]
     IN \E d \in Draws(D, tc.name, tc.args.fields) :
          LET out == dispatch(env, tc.name, tc.args.fields, tc.args.urgency, d)
          IN IF \/ tc.args.form = "malformed"
                \/ d.fn = "getAvailability" /\ d.v1.kind = "throw"
                     /\ out.trace = <<"cal:v2:slots", "cal:v1:availability">>
               THEN /\ resp' = RespInternal
                    /\ pc' = "done"
                    /\ fnIn' = d
                    /\ fnOut' = NoOut
                    /\ trace' = <<>>
                    /\ recs' = <<>>
                    /\ UNCHANGED <<results, log>>
               ELSE /\ results' = PushResult(results, tc, out)
                    /\ fnIn' = d
                    /\ fnOut' = out
                    /\ trace' = out.trace
                    /\ recs' = out.recs
                    /\ log' = log \o Tagged(tc, out.trace)
                    /\ UNCHANGED <<pc, resp>>
  /\ UNCHANGED <<env, req, toolCalls, sends, storeVars>>

\* a loop that skips a call whose arguments are not JSON and goes on
DispatchToolCall_SkipsMalformed(D) ==
  /\ pc = "loop"
  /\ Len(results) < Len(toolCalls)
  /\ LET tc == toolCalls[Len(results) + 1]
     IN \E d \in Draws(D, tc.name, tc.args.fields) :
          LET out == IF tc.args.form = "malformed" THEN clarification
                     ELSE dispatch(env, tc.name, tc.args.fields, tc.args.urgency, d)
          IN /\ results' = PushResult(results, tc, out)
             /\ fnIn' = d
             /\ fnOut' = out
             /\ trace' = out.trace
             /\ recs' = out.recs
             /\ log' = log \o Tagged(tc, out.trace)
             /\ UNCHANGED <<pc, resp>>
  /\ UNCHANGED <<env, req, toolCalls, sends, storeVars>>

\* a loop that takes the calls of the batch last first
DispatchToolCall_LastFirst(D) ==
  /\ pc = "loop"
  /\ Len(results) < Len(toolCalls)
  /\ LET tc == toolCalls[Len(toolCalls) - Len(results)]
     IN IF tc.args.form = "malformed"
          THEN /\ resp' = RespInternal
               /\ pc' = "done"
               /\ fnIn' = NoDraw
               /\ fnOut' = NoOut
               /\ trace' = <<>>
               /\ recs' = <<>>
               /\ UNCHANGED <<results, log>>
          ELSE \E d \in Draws(D, tc.name, tc.args.fields) :
                 LET out == dispatch(env, tc.name, tc.args.fields, tc.args.urgency, d)
                 IN /\ results' = PushResult(results, tc, out)
                    /\ fnIn' = d
                    /\ fnOut' = out
                    /\ trace' = out.trace
                    /\ recs' = out.recs
                    /\ log' = log \o Tagged(tc, out.trace)
                    /\ UNCHANGED <<pc, resp>>
  /\ UNCHANGED <<env, req, toolCalls, sends, storeVars>>

\* one iteration of for (const tc of toolCalls); JSON.parse throws on
\* arguments that are not JSON
DispatchToolCall(D) ==
  /\ pc = "loop"
  /\ Len(results) < Len(toolCalls)
  /\ LET tc == toolCalls[Len(results) + 1]
     IN IF tc.args.form = "malformed"
          THEN /\ resp' = RespInternal
               /\ pc' = "done"
               /\ fnIn' = NoDraw
               /\ fnOut' = NoOut
               /\ trace' = <<>>
               /\ recs' = <<>>
               /\ UNCHANGED <<results, log>>
          ELSE \E d \in Draws(D, tc.name, tc.args.fields) :
                 LET out == dispatch(env, tc.name, tc.args.fields, tc.args.urgency, d)
                 IN /\ results' = PushResult(results, tc, out)
                    /\ fnIn' = d
                    /\ fnOut' = out
                    /\ trace' = out.trace
                    /\ recs' = out.recs
                    /\ log' = log \o Tagged(tc, out.trace)
                    /\ UNCHANGED <<pc, resp>>
  /\ UNCHANGED <<env, req, toolCalls, sends, storeVars>>

\* return res.json({ results })
RespondResults ==
  /\ pc = "loop"
  /\ Len(results) = Len(toolCalls)
  /\ resp' = RespResults(results)
  /\ pc' = "done"
  /\ UNCHANGED <<env, req, toolCalls, results, trace, recs, fnIn, fnOut, log, sends,
                  storeVars>>

\* the value wrapped as { result }
LegacyResult(out) ==
  IF "error" \in DOMAIN out THEN [error |-> out.error]
  ELSE IF "available" \in DOMAIN out
    THEN [available |-> out.available, slots |-> out.slots, message |-> out.message]
  ELSE [success |-> out.success, message |-> out.message]

\* message.type === 'function-call'
LegacyFunctionCall(R, D) ==
  /\ Idle
  /\ \E r \in R :
       /\ Authorized(r)
       /\ r.body.present
       /\ ~HasBatch(r.body)
       /\ TypeOf(r.body) = "function-call"
       /\ LET fn == r.body.functionCall
          IN IF ~fn.hasName
               THEN Answer(r, RespError(400, "Missing function name"), NoDraw, NoOut)
               ELSE \E d \in Draws(D, fn.name, fn.fields) :
                      LET out == dispatch(env, fn.name, fn.fields, "flexible", d)
                      IN Answer(r, RespResult(LegacyResult(out)), d, out)

\* summary.toLowerCase(): a summary is the set of the keywords it contains,
\* as written
ToLowerCase(w) ==
  CASE w \in {"SCHEDULED", "Scheduled"} -> "scheduled"
    [] w \in {"URGENT", "Urgent"} -> "urgent"
    [] OTHER -> w

Lowered(summary) == {ToLowerCase(w) : w \in summary}

\* a match that forgets toLowerCase()
WasBooked_CaseSensitive(summary) == summary \cap {"booked", "confirmed", "scheduled"} # {}

WasBooked(summary) == Lowered(summary) \cap {"booked", "confirmed", "scheduled"} # {}
WasEmergency(summary) == Lowered(summary) \cap {"emergency", "urgent"} # {}

CallRecord(summary) ==
  [type |-> "call", id |-> "call-id",
   status |-> IF WasEmergency(summary) THEN "Emergency"
              ELSE IF WasBooked(summary) THEN "Booked" ELSE "Completed",
   estimateBooked |-> WasBooked(summary)]

\* message.type === 'end-of-call-report'
EndOfCallReport(R, D) ==
  /\ Idle
  /\ \E r \in R :
       /\ Authorized(r)
       /\ r.body.present
       /\ ~HasBatch(r.body)
       /\ TypeOf(r.body) = "end-of-call-report"
       /\ \E st \in D.kv :
            LET s == storeCall(env, CallRecord(r.body.summary), st)
            IN Answer(r, RespReceived, [fn |-> "storeCall", st |-> st],
                      [message |-> NoMsg, trace |-> <<"storeCall">> \o s.trace,
                       recs |-> s.recs])

\* message.type === 'status-update'
StatusUpdate(R) ==
  /\ Idle
  /\ \E r \in R :
       /\ Authorized(r)
       /\ r.body.present
       /\ ~HasBatch(r.body)
       /\ TypeOf(r.body) = "status-update"
       /\ Answer(r, RespOk, NoDraw, NoOut)

\* catch-all
CatchAll(R) ==
  /\ Idle
  /\ \E r \in R :
       /\ Authorized(r)
       /\ r.body.present
       /\ ~HasBatch(r.body)
       /\ TypeOf(r.body) \notin {"function-call", "end-of-call-report", "status-update"}
       /\ Answer(r, RespOk, NoDraw, NoOut)

\* the invocation is over; the next one starts from nothing
Finish ==
  /\ pc = "done"
  /\ pc' = "idle"
  /\ req' = NoRequest
  /\ toolCalls' = <<>>
  /\ results' = <<>>
  /\ trace' = <<>>
  /\ recs' = <<>>
  /\ resp' = NoResponse
  /\ fnIn' = NoDraw
  /\ fnOut' = NoOut
  /\ log' = <<>>
  /\ UNCHANGED <<env, sends, storeVars>>

(***************************************************************************)
(* Spec: the router, over batches of up to MaxBatch calls.                 *)
(***************************************************************************)
Init == InitWith(RouterEnvs)

Next ==
  \/ Options(RouterRequests)
  \/ MethodNotAllowed(RouterRequests)
  \/ Unauthorized(RouterRequests)
  \/ BodyFault(RouterRequests)
  \/ StartBatch(RouterRequests)
  \/ DispatchToolCall(RouterDownstream)
  \/ RespondResults
  \/ LegacyFunctionCall(RouterRequests, RouterDownstream)
  \/ EndOfCallReport(RouterRequests, RouterDownstream)
  \/ StatusUpdate(RouterRequests)
  \/ CatchAll(RouterRequests)
  \/ Finish

Spec == Init /\ [][Next]_vars

(***************************************************************************)
(* SpecCall: one tool call or one legacy function call, over every         *)
(* response shape of the downstream services and every configuration of    *)
(* the store and of the SMS client.                                        *)
(***************************************************************************)
InitCall == InitWith(CallEnvs)

NextCall ==
  \/ StartBatch(CallRequests)
  \/ DispatchToolCall(CallDownstream)
  \/ RespondResults
  \/ LegacyFunctionCall(CallRequests, CallDownstream)
  \/ Finish

SpecCall == InitCall /\ [][NextCall]_vars

(***************************************************************************)
(* SpecAvail: getAvailability as a function of the urgency and of what the *)
(* two availability endpoints answer, over groupings of up to MaxGroups    *)
(* date keys with up to MaxGroupLen times each.                            *)
(***************************************************************************)
AvailGroupings == Groupings(MaxGroups, MaxGroupLen)

AvailInputs ==
  {[fn |-> "getAvailability", urgency |-> u, v2 |-> v2, v1 |-> v1] :
     u \in {"emergency", "flexible"},
     v2 \in AvailResponsesV2(AvailGroupings),
     v1 \in AvailResponsesV1(AvailGroupings)}

InitAvail ==
  /\ env = [secret |-> "", kv |-> TRUE, twilio |-> TRUE]
  /\ pc = "call"
  /\ req = NoRequest
  /\ toolCalls = <<>>
  /\ results = <<>>
  /\ trace = <<>>
  /\ recs = <<>>
  /\ resp = NoResponse
  /\ fnIn \in AvailInputs
  /\ fnOut = NoOut
  /\ log = <<>>
  /\ sends = NoSends
  /\ StoreAtRest

CallGetAvailability ==
  /\ pc = "call"
  /\ LET out == getAvailability(fnIn.urgency, fnIn.v2, fnIn.v1)
     IN /\ fnOut' = out
        /\ trace' = out.trace
        /\ recs' = out.recs
  /\ pc' = "returned"
  /\ UNCHANGED <<env, req, toolCalls, results, resp, fnIn, log, sends, storeVars>>

NextAvail == CallGetAvailability

SpecAvail == InitAvail /\ [][NextAvail]_vars

(***************************************************************************)
(* Claims about the router (specification Spec).                           *)
(***************************************************************************)
\* the batch a payload carries: the list under message.toolCallList when it
\* is not empty, else the list under the top-level toolCallList
CarriedBatch(b) ==
  IF b.hasMessage /\ b.mList.present /\ Len(b.mList.calls) > 0 THEN b.mList.calls
  ELSE IF b.tList.present THEN b.tList.calls
  ELSE <<>>

ArgumentsParse(batch) == \A k \in DOMAIN batch : batch[k].args.form # "malformed"

Answered == pc = "done"

AuthorizedPost == req.method = "POST" /\ resp.status # 401

\* C1: every authorized POST that carries a non-empty batch of N tool calls
\* (whose arguments parse), under message.toolCallList or under the
\* top-level toolCallList, is answered with exactly N results, in input
\* order, results[i].toolCallId being the id of the i-th call.
C1_OneResultPerCall ==
  (Answered /\ AuthorizedPost /\ req.body.present
     /\ Len(CarriedBatch(req.body)) > 0 /\ ArgumentsParse(CarriedBatch(req.body)))
    => /\ resp.status = 200
       /\ resp.body.kind = "results"
       /\ Len(resp.body.results) = Len(CarriedBatch(req.body))
       /\ \A k \in DOMAIN resp.body.results :
            resp.body.results[k].toolCallId = CarriedBatch(req.body)[k].id

\* what the code does keep: a batch under message.toolCallList gets one result
\* per call, in order
MessageBatchAnswered ==
  (Answered /\ AuthorizedPost /\ req.body.present /\ req.body.hasMessage
     /\ req.body.mList.present /\ Len(req.body.mList.calls) > 0
     /\ ArgumentsParse(req.body.mList.calls))
    => /\ resp = RespResults(results)
       /\ Len(results) = Len(req.body.mList.calls)
       /\ \A k \in DOMAIN results : results[k].toolCallId = req.body.mList.calls[k].id

NeitherHeaderMatches ==
  /\ req.method = "POST"
  /\ env.secret # ""
  /\ req.xSecret # env.secret
  /\ req.xSignature # env.secret

\* C2: with a secret configured, a POST in which neither accepted header
\* equals the secret is answered 401 {error: "Unauthorized"}, and the
\* invocation calls no scheduling, notification or store service and hands
\* no record to the store, whatever the payload.
C2_UnauthorizedRejected ==
  (pc # "idle" /\ NeitherHeaderMatches)
    => /\ Answered
       /\ resp = RespError(401, "Unauthorized")
       /\ trace = <<>>
       /\ recs = <<>>
       /\ results = <<>>

\* a wrong x-vapi-secret beside a wrong x-vapi-signature, on a payload that
\* carries a tool-call batch
C2_Witness ==
  /\ Answered
  /\ NeitherHeaderMatches
  /\ req.xSecret = "wrong"
  /\ req.xSignature = "wrong"
  /\ HasBatch(req.body)
  /\ resp.status = 401

\* C3: with a secret configured, a POST is authorized whenever at least one
\* of x-vapi-secret and x-vapi-signature equals the secret, whatever the
\* other header holds: such a request is not answered 401.
C3_EitherHeaderAuthorizes ==
  (pc # "idle" /\ req.method = "POST" /\ env.secret # ""
     /\ (req.xSecret = env.secret \/ req.xSignature = env.secret))
    => resp.status # 401

(***************************************************************************)
(* Claims about one dispatched function (specification SpecCall).          *)
(***************************************************************************)
\* a tool call went through the switch: its result was pushed
ToolDispatched == pc \in {"loop", "done"} /\ Len(results) > 0 /\ resp.status # 500

\* a legacy function call went through the switch
LegacyDispatched == Answered /\ resp.body.kind = "result"

Dispatched == ToolDispatched \/ LegacyDispatched

LastName ==
  IF ToolDispatched THEN toolCalls[Len(results)].name ELSE req.body.functionCall.name

LastFields ==
  IF ToolDispatched THEN toolCalls[Len(results)].args.fields
  ELSE req.body.functionCall.fields

\* the message the caller hears for the last dispatched function
LastMessage ==
  IF ToolDispatched THEN results[Len(results)].result ELSE resp.body.result.message

Made(call) == \E k \in DOMAIN trace : trace[k] = call

SchedulingContacted == \E k \in DOMAIN trace : trace[k] \in SchedulingCalls
NotificationSent == \E k \in DOMAIN trace : trace[k] \in NotificationCalls
StoreContacted == \E k \in DOMAIN trace : trace[k] \in StoreCalls

\* C4: a book_appointment request, in the tool-call path and in the legacy
\* path, in which caller_name, phone or appointment_time is absent contacts
\* neither version of the scheduling provider, sends no notification,
\* persists no record and returns the clarification message.
C4_MissingDetailsClarified ==
  (Dispatched /\ LastName = "book_appointment"
     /\ \E f \in {"caller_name", "phone", "appointment_time"} : f \notin LastFields)
    => /\ ~SchedulingContacted
       /\ ~NotificationSent
       /\ ~StoreContacted
       /\ ~Made("storeCall")
       /\ recs = <<>>
       /\ LastMessage = MsgClarify
       /\ (Answered /\ ToolDispatched => resp = RespResults(results))

\* a tool call that lacks only the phone, answered
C4_Witness ==
  /\ Answered
  /\ ToolDispatched
  /\ LastName = "book_appointment"
  /\ LastFields = Fields \ {"phone"}
  /\ LastMessage = MsgClarify

\* C5 as written: a booking request missing any one of caller name, phone,
\* appointment time and job description is rejected before the scheduling
\* provider is contacted.
C5_FourRequiredFields ==
  (Dispatched /\ LastName = "book_appointment" /\ \E f \in Fields : f \notin LastFields)
    => ~SchedulingContacted

\* C5 as amended: a booking request is rejected before the scheduling
\* provider is contacted exactly when caller name, phone or appointment time
\* is missing; the job description is not required, and a request that lacks
\* only it goes to the scheduling provider.
C5_ThreeRequiredFields ==
  (Dispatched /\ LastName = "book_appointment")
    => /\ SchedulingContacted
            <=> {"caller_name", "phone", "appointment_time"} \subseteq LastFields
       /\ SchedulingContacted => trace[1] = "cal:v2:bookings"
       /\ ~SchedulingContacted => LastMessage = MsgClarify

\* a legacy call that lacks only the job description reached the provider
C5_Witness ==
  /\ LegacyDispatched
  /\ LastName = "book_appointment"
  /\ LastFields = Fields \ {"job_description"}
  /\ Made("cal:v2:bookings")

\* bookAppointment ran
Booking == Dispatched /\ fnIn.fn = "bookAppointment"

\* the id a booking response carries, at data.id or at id
IdIn(response) ==
  IF response.kind = "throw" \/ ~response.body.truthy THEN NoId
  ELSE IF response.body.dataId # NoId THEN response.body.dataId
  ELSE response.body.id

\* the newer API yields no identifier: it throws, answers an error status,
\* or answers a body without an id
NoIdFromV2 == fnIn.v2.kind # "ok" \/ IdIn(fnIn.v2) = NoId

\* C6: in bookAppointment, whenever the newer API yields no booking
\* identifier, the older API is attempted, after the newer one and exactly
\* once; no failure is returned without the older API having been attempted.
C6_OlderApiAttempted ==
  (Booking /\ NoIdFromV2)
    => /\ Len(trace) >= 2
       /\ trace[1] = "cal:v2:bookings"
       /\ trace[2] = "cal:v1:bookings"
       /\ Count(trace, "cal:v1:bookings") = 1

\* an identifier was obtained from the newer API or, the older one having
\* been attempted, from the older API
IdObtained ==
  \/ ~NoIdFromV2
  \/ Made("cal:v1:bookings") /\ fnIn.v1.kind # "throw" /\ IdIn(fnIn.v1) # NoId

\* the outcome of a send: delivered when the client exists and create succeeds
Delivered(sms) == env.twilio /\ sms = "ok"

\* C7: bookAppointment attempts both notifications, once each, hands one
\* record of variant booking to persist and returns success: true exactly
\* when a booking identifier was obtained, whatever the notifications and
\* the store do; with no identifier it sends nothing, persists nothing and
\* returns success: false.
C7_SuccessIffIdentifier ==
  Booking =>
    /\ fnOut.success <=> IdObtained
    /\ IdObtained =>
         /\ Count(trace, "sendSMS:customer") = 1
         /\ Count(trace, "sendSMS:owner") = 1
         /\ Count(trace, "storeCall") = 1
         /\ Len(recs) = 1
         /\ recs[1].type = "booking"
         /\ recs[1].sms_customer = Delivered(fnIn.smsC)
         /\ recs[1].sms_owner = Delivered(fnIn.smsO)
    /\ ~IdObtained =>
         /\ ~Made("sendSMS:customer")
         /\ ~Made("sendSMS:owner")
         /\ ~NotificationSent
         /\ ~Made("storeCall")
         /\ ~StoreContacted
         /\ recs = <<>>

\* a booking that succeeded although both sends and the record write failed
C7_Witness ==
  /\ Booking
  /\ env.twilio
  /\ env.kv
  /\ fnIn.smsC = "throw"
  /\ fnIn.smsO = "throw"
  /\ fnIn.st[1] = "throw"
  /\ fnOut.success
  /\ Made("twilio:customer")
  /\ Made("twilio:owner")

Alerting == Dispatched /\ LastName = "send_emergency_alert"

\* C8: every send_emergency_alert, in both paths, attempts exactly one owner
\* notification, then hands one record of variant emergency to persist whose
\* alert_sent is that notification's outcome, and answers the same
\* success-phrased message whatever the notification and the store did.
C8_AlertAlwaysSoundsSent ==
  Alerting =>
    /\ Count(trace, "sendSMS:owner") = 1
    /\ ~Made("sendSMS:customer")
    /\ Count(trace, "storeCall") = 1
    /\ \A i \in Positions(trace, "sendSMS:owner"), j \in Positions(trace, "storeCall") : i < j
    /\ \A i \in Positions(trace, "twilio:owner"), j \in Positions(trace, "storeCall") : i < j
    /\ recs = <<EmergencyRecord(Delivered(fnIn.smsO))>>
    /\ LastMessage = MsgAlertSent
    /\ LegacyDispatched => resp.body.result.success

\* an alert whose notification and whose record write both failed
C8_Witness ==
  /\ Alerting
  /\ LegacyDispatched
  /\ env.twilio
  /\ env.kv
  /\ fnIn.smsO = "throw"
  /\ fnIn.st[1] = "throw"
  /\ resp.body.result.message = MsgAlertSent

(***************************************************************************)
(* Claims about getAvailability (specification SpecAvail).                 *)
(***************************************************************************)
Returned == pc = "returned"

\* the response the result was read from: the older API's when it was queried
ResponseRead == IF Made("cal:v1:availability") THEN fnIn.v1 ELSE fnIn.v2

\* the grouping a body carries: under data.slots, else under slots
GroupingIn(body) ==
  IF body.truthy /\ body.data.truthy /\ body.data.hasSlots THEN body.data.slots
  ELSE IF body.truthy /\ body.hasSlots THEN body.slots
  ELSE <<>>

\* the times of a grouping, date key after date key, in the order returned
RECURSIVE UpstreamTimes(_)
UpstreamTimes(G) ==
  IF G = <<>> THEN <<>>
  ELSE (IF Head(G).isArray THEN Head(G).times ELSE <<>>) \o UpstreamTimes(Tail(G))

\* C9: the slots getAvailability lists are exactly the first min(3, n)
\* entries of the grouping of the provider's response, flattened in the
\* order returned, n being the number of slots returned: never more than 3.
C9_FirstThreeSlots ==
  Returned =>
    LET upstream == UpstreamTimes(GroupingIn(ResponseRead.body))
    IN /\ Len(fnOut.slots) <= 3
       /\ fnOut.available =>
            /\ Len(fnOut.slots) = Min(3, Len(upstream))
            /\ \A k \in DOMAIN fnOut.slots :
                 /\ fnOut.slots[k].iso = upstream[k]
                 /\ fnOut.slots[k].display = Display(upstream[k])
            /\ fnOut.message.shown = [k \in DOMAIN fnOut.slots |-> fnOut.slots[k].display]
       /\ ~fnOut.available => fnOut.slots = <<>>

\* the newer API returned more than 3 slots under several date keys and
\* 3 of them are listed
C9_Witness ==
  /\ Returned
  /\ fnOut.available
  /\ ~Made("cal:v1:availability")
  /\ Len(GroupingIn(fnIn.v2.body)) > 1
  /\ Len(UpstreamTimes(GroupingIn(fnIn.v2.body))) > 3
  /\ Len(fnOut.slots) = 3

\* no slots under data.slots and none under the top-level slots
NoSlotStructure(body) ==
  ~(body.truthy /\ body.data.truthy /\ body.data.hasSlots) /\ ~(body.truthy /\ body.hasSlots)

\* C10: getAvailability queries the newer API first, and queries the older
\* one whenever the newer call failed (threw, or error status) or returned
\* no usable slot structure; the "no openings" and the apology results are
\* not returned in those cases without the older API having been queried.
C10_OlderApiQueried ==
  Returned =>
    /\ Len(trace) >= 1
    /\ trace[1] = "cal:v2:slots"
    /\ (fnIn.v2.kind # "ok" \/ NoSlotStructure(fnIn.v2.body))
         => /\ Len(trace) = 2
            /\ trace[2] = "cal:v1:availability"

\* what the caller gets from getAvailability
CallerFacing(out) == [available |-> out.available, slots |-> out.slots, message |-> out.message]

\* the same response with its grouping nested under data.slots
Nested(response) == [kind |-> response.kind, body |-> NestedBody(DataSlots(response.body.slots))]

\* the newer API answered 200 with its grouping at top level: {slots}
TopLevelFromV2 ==
  /\ fnIn.v2.kind = "ok"
  /\ fnIn.v2.body.truthy
  /\ ~fnIn.v2.body.data.truthy
  /\ fnIn.v2.body.hasSlots

\* C11: when the newer API delivers a slot grouping at top level as {slots},
\* the caller-facing result (available, slots, message) is the one it gets
\* when the same grouping comes nested as {data: {slots}}, and it does not
\* depend on what the older API answers.
C11_ShapeIndependent ==
  (Returned /\ TopLevelFromV2)
    => \A v1 \in AvailResponsesV1(AvailGroupings) :
            CallerFacing(fnOut) = CallerFacing(getAvailability(fnIn.urgency, Nested(fnIn.v2), v1))

\* the number of slots of the response the result was read from
SlotsObtained == Len(UpstreamTimes(GroupingIn(ResponseRead.body)))

\* a response was obtained: the older API, when queried, did not throw
ResponseObtained == ~(Made("cal:v1:availability") /\ fnIn.v1.kind = "throw")

\* C12: whenever getAvailability obtains a response that contains zero slots
\* in total, date keys that all map to empty lists included, it returns the
\* "no openings" message with available: false; every result with
\* available: true lists at least one and at most three slots.
C12_NoSlotsNoOpenings ==
  Returned =>
    /\ (ResponseObtained /\ SlotsObtained = 0)
         => (~fnOut.available /\ fnOut.message = MsgNoOpenings)
    /\ fnOut.available => (Len(fnOut.slots) >= 1 /\ Len(fnOut.slots) <= 3)

(***************************************************************************)
(* Claims about failures and about classification.                         *)
(***************************************************************************)
\* the request carries tool calls whose arguments parse, under
\* message.toolCallList, or a legacy function call that names its function
WellFormedCall ==
  \/ /\ req.body.present
     /\ req.body.hasMessage
     /\ HasBatch(req.body)
     /\ req.body.mList.present
     /\ ArgumentsParse(req.body.mList.calls)
  \/ /\ req.body.present
     /\ ~HasBatch(req.body)
     /\ TypeOf(req.body) = "function-call"
     /\ req.body.functionCall.hasName

Intents == {"check_availability", "book_appointment", "send_emergency_alert"}

\* C13: an authorized POST that carries well-formed tool calls or a
\* well-formed legacy function call is never answered 5xx, whatever the two
\* versions of the scheduling provider, the notification provider and the
\* record store do (transport error or error status): it is answered 200
\* with its results, and every intent yields a message for the caller.
C13_FailuresNever5xx ==
  (pc # "idle" /\ AuthorizedPost /\ WellFormedCall)
    => /\ resp.status < 500
       /\ Answered => (resp.status = 200 /\ resp.body.kind \in {"results", "result"})
       /\ (Dispatched /\ LastName \in Intents) => LastMessage.text # ""

\* a tool call that books while every service fails: no version of the
\* scheduling provider answers
C13_Witness ==
  /\ Answered
  /\ ToolDispatched
  /\ Booking
  /\ fnIn.v2.kind = "throw"
  /\ fnIn.v1.kind = "throw"
  /\ resp.status = 200
  /\ LastMessage = MsgHiccup

\* the payload matches no recognized event shape
Unrecognized ==
  /\ ~req.body.present \/ Len(CarriedBatch(req.body)) = 0
  /\ ~req.body.present
       \/ TypeOf(req.body) \notin {"function-call", "end-of-call-report", "status-update"}

\* C14: every authorized POST whose payload matches no recognized event
\* shape, a payload without message and a request without body included, is
\* answered 200 {ok: true} and makes no downstream call.
C14_UnrecognizedAcknowledged ==
  (Answered /\ AuthorizedPost /\ Unrecognized)
    => /\ resp = RespOk
       /\ trace = <<>>
       /\ recs = <<>>

\* C15: a payload that carries a non-empty tool-call batch, under
\* message.toolCallList or at top level, is handled as a batch whatever its
\* type tag: the response is {results: [...]}, no record of variant call is
\* handed to persist and the legacy path is not taken.
C15_BatchFirst ==
  (Answered /\ AuthorizedPost /\ req.body.present /\ req.body.hasMessage
     /\ Len(CarriedBatch(req.body)) > 0 /\ ArgumentsParse(CarriedBatch(req.body)))
    => /\ resp.body.kind = "results"
       /\ \A k \in DOMAIN recs : recs[k].type # "call"

\* what the code does keep: a batch under message.toolCallList comes first
\* whatever the type tag
MessageBatchFirst ==
  (Answered /\ AuthorizedPost /\ req.body.present /\ req.body.hasMessage
     /\ req.body.mList.present /\ Len(req.body.mList.calls) > 0
     /\ ArgumentsParse(req.body.mList.calls))
    => /\ resp.body.kind = "results"
       /\ \A k \in DOMAIN recs : recs[k].type # "call"

\* an end-of-call report was stored
Reported == Answered /\ resp = RespReceived

SaysScheduled == "scheduled" \in Lowered(req.body.summary)

SaysEmergency == Lowered(req.body.summary) \cap {"emergency", "urgent"} # {}

\* C18 as written: for every end-of-call-report whose summary contains
\* "scheduled", in any letter case, the record of variant call handed to
\* persist has status "Booked", whatever else the summary contains.
C18_ScheduledIsBooked ==
  (Reported /\ SaysScheduled)
    => /\ Len(recs) = 1
       /\ recs[1].type = "call"
       /\ recs[1].status = "Booked"

\* C18 as amended: for every end-of-call-report whose summary contains
\* "scheduled", in any letter case, the record of variant call handed to
\* persist has estimateBooked true, and status "Booked" unless the summary
\* also contains "emergency" or "urgent", in which case the status is
\* "Emergency".
C18_ScheduledIsBookedUnlessEmergency ==
  (Reported /\ SaysScheduled)
    => /\ Len(recs) = 1
       /\ recs[1].type = "call"
       /\ recs[1].estimateBooked
       /\ recs[1].status = IF SaysEmergency THEN "Emergency" ELSE "Booked"

\* a report whose summary says SCHEDULED in capitals was stored as Booked
C18_Witness ==
  /\ Reported
  /\ req.body.summary = {"SCHEDULED"}
  /\ recs[1].status = "Booked"
  /\ Made("storeCall")

\* a tool-call batch is being processed or has been answered
InBatch == pc \in {"loop", "done"} /\ Len(toolCalls) > 0

\* the position in the batch of the tool call with this id
PositionOf(id) == CHOOSE k \in DOMAIN toolCalls : toolCalls[k].id = id

\* C19: a tool-call batch is processed strictly sequentially, in input
\* order: the downstream calls made for the i-th call all come before those
\* made for the (i+1)-th, no downstream call is made for a call whose turn
\* has not come, results are pushed in input order, and the response is sent
\* only after the last call has completed.
C19_Sequential ==
  InBatch
    => /\ \A i, j \in DOMAIN log :
            i < j => PositionOf(log[i].id) <= PositionOf(log[j].id)
       /\ \A i \in DOMAIN log : PositionOf(log[i].id) <= Len(results)
       /\ \A k \in DOMAIN results : results[k].toolCallId = toolCalls[k].id
       /\ resp # NoResponse => pc = "done"
       /\ resp.body.kind = "results"
            => (Len(results) = Len(toolCalls) /\ resp.body.results = results)

\* a batch of two calls, both of which made downstream calls, was answered
C19_Witness ==
  /\ Answered
  /\ Len(toolCalls) = 2
  /\ resp.body.kind = "results"
  /\ \E i, j \in DOMAIN log : i < j /\ log[i].id = CallId(1) /\ log[j].id = CallId(2)

(***************************************************************************)
(* SpecBook: bookAppointment step by step.  The two notification sends of  *)
(* a booking are started together (Promise.all) and each completes in a    *)
(* step of its own, in either order; the function goes on when both have   *)
(* completed.                                                              *)
(***************************************************************************)
BookInputs ==
  {[fn |-> "bookAppointment", v2 |-> x[1], v1 |-> x[2], smsC |-> x[3], smsO |-> x[4],
    st |-> x[5]] :
     x \in BookResponsesV2 \X BookResponsesV1 \X SmsOutcomes \X SmsOutcomes \X KvOutcomes}

InitBook ==
  /\ env \in CallEnvs
  /\ pc = "book"
  /\ req = NoRequest
  /\ toolCalls = <<>>
  /\ results = <<>>
  /\ trace = <<>>
  /\ recs = <<>>
  /\ resp = NoResponse
  /\ fnIn \in BookInputs
  /\ fnOut = NoOut
  /\ log = <<>>
  /\ sends = NoSends
  /\ StoreAtRest

\* the attempts at the two versions of the booking API and the id obtained
BookAttempts(v2, v1) ==
  LET result == IF v2.kind = "ok" THEN v2.body ELSE NoBookBody
  IN IF BookNeedsV1(result)
       THEN [bookingId |-> IF v1.kind = "throw" THEN NoId ELSE BookingIdOf(v1.body),
             trace |-> <<"cal:v2:bookings", "cal:v1:bookings">>]
       ELSE [bookingId |-> BookingIdOf(result), trace |-> <<"cal:v2:bookings">>]

\* what sendSMS is told by messages.create, from the state of the send
OutcomeOf(send) == IF send = "sent" THEN "ok" ELSE "throw"

\* the state of the two sends once sendSMS was called for both: without a
\* client each has returned false, in the order of the calls
StartedSends(e) ==
  IF e.twilio
    THEN [customer |-> "pending", owner |-> "pending", order |-> <<>>]
    ELSE [customer |-> "failed", owner |-> "failed", order |-> <<"customer", "owner">>]

\* the two booking attempts; with an id both sends are started, without one
\* the function returns its failure
BookSchedule ==
  /\ pc = "book"
  /\ LET a == BookAttempts(fnIn.v2, fnIn.v1)
         out == bookAppointment(env, Fields, fnIn.v2, fnIn.v1, fnIn.smsC, fnIn.smsO, fnIn.st)
     IN IF a.bookingId = NoId
          THEN /\ fnOut' = out
               /\ trace' = out.trace
               /\ recs' = out.recs
               /\ pc' = "returned"
               /\ UNCHANGED sends
          ELSE /\ sends' = StartedSends(env)
               /\ trace' = a.trace \o sendSMS(env, "customer", fnIn.smsC).trace
                                   \o sendSMS(env, "owner", fnIn.smsO).trace
               /\ pc' = "sending"
               /\ UNCHANGED <<fnOut, recs>>
  /\ UNCHANGED <<env, req, toolCalls, results, resp, fnIn, log, storeVars>>

\* messages.create of one send settles
CompleteSend ==
  /\ pc = "sending"
  /\ \E to \in {"customer", "owner"} :
       /\ sends[to] = "pending"
       /\ LET sms == IF to = "customer" THEN fnIn.smsC ELSE fnIn.smsO
          IN sends' = [sends EXCEPT ![to] = IF sms = "ok" THEN "sent" ELSE "failed",
                                    !.order = Append(@, to)]
  /\ UNCHANGED <<env, pc, req, toolCalls, results, trace, recs, resp, fnIn, fnOut, log,
                 storeVars>>

\* a function that goes on as soon as one of the sends has settled
BookReturn_Race ==
  /\ pc = "sending"
  /\ sends.customer # "pending" \/ sends.owner # "pending"
  /\ LET out == bookAppointment(env, Fields, fnIn.v2, fnIn.v1, OutcomeOf(sends.customer),
                                OutcomeOf(sends.owner), fnIn.st)
     IN /\ fnOut' = out
        /\ trace' = out.trace
        /\ recs' = out.recs
  /\ pc' = "returned"
  /\ UNCHANGED <<env, req, toolCalls, results, resp, fnIn, log, sends, storeVars>>

\* Promise.all has both outcomes: the record is stored, the message composed
BookReturn ==
  /\ pc = "sending"
  /\ sends.customer # "pending"
  /\ sends.owner # "pending"
  /\ LET out == bookAppointment(env, Fields, fnIn.v2, fnIn.v1, OutcomeOf(sends.customer),
                                OutcomeOf(sends.owner), fnIn.st)
     IN /\ fnOut' = out
        /\ trace' = out.trace
        /\ recs' = out.recs
  /\ pc' = "returned"
  /\ UNCHANGED <<env, req, toolCalls, results, resp, fnIn, log, sends, storeVars>>

NextBook ==
  \/ BookSchedule
  \/ CompleteSend
  \/ BookReturn

SpecBook == InitBook /\ [][NextBook]_vars

Settled(send) == send \in {"sent", "failed"}

\* C20: in a successful booking the two sends are started together and may
\* settle in either order; the record is handed to persist and the message
\* composed only after both have settled, and sms_customer and sms_owner of
\* the record are the outcomes of the caller's send and of the owner's send,
\* whatever the order and whatever the other send did.
C20_BothSendsAwaited ==
  /\ pc = "sending"
       => /\ sends.customer # "none"
          /\ sends.owner # "none"
          /\ recs = <<>>
          /\ fnOut = NoOut
          /\ ~Made("storeCall")
  /\ (pc = "returned" /\ fnOut.success)
       => /\ Settled(sends.customer)
          /\ Settled(sends.owner)
          /\ Len(sends.order) = 2
          /\ Len(recs) = 1
          /\ recs[1].sms_customer = Delivered(fnIn.smsC)
          /\ recs[1].sms_owner = Delivered(fnIn.smsO)
          /\ fnOut.message = IF Delivered(fnIn.smsC) THEN MsgBooked ELSE MsgBookedOwnerConfirms

\* the owner's send settled first and succeeded, the caller's settled second
\* and failed; the record tells them apart
C20_Witness ==
  /\ pc = "returned"
  /\ fnOut.success
  /\ sends.order = <<"owner", "customer">>
  /\ recs[1].sms_owner
  /\ ~recs[1].sms_customer

(***************************************************************************)
(* SpecStore: storeCall step by step against the KV store.  Up to          *)
(* MaxPersists invocations run at once, each a SET, an LPUSH and an LTRIM  *)
(* request in a step of its own; a request is applied ("ok"), refused with *)
(* an error status ("err": fetch resolves, nothing is applied) or lost     *)
(* ("throw": fetch rejects, nothing is applied).  The list starts empty or *)
(* as earlier invocations left it; the records of old keys have expired.   *)
(***************************************************************************)
RecentCap == 200
MaxPersists == 2

\* the records handed to storeCall: two bookings that obtained the same
\* booking id, and the report of a call, which may be stored more than once
StoreRecords ==
  {BookingRecord("bk1", TRUE, TRUE), BookingRecord("bk1", FALSE, TRUE),
   CallRecord({"scheduled"})}

\* const key = `call:${callData.id || Date.now()}`
KeyOf(callData) == "call:" \o callData.id

\* the key of the i-th of the earlier invocations
OldKey(i) == "call:emergency-" \o ToString(i)

\* recent_calls after n earlier invocations, newest first
Prefilled(n) == [i \in 1..n |-> OldKey(n - i + 1)]

NoRecord == [type |-> "none", id |-> ""]

IdlePersist == [pc |-> "idle", key |-> "", value |-> NoRecord, st |-> <<>>, ret |-> FALSE]

KvStepOutcomes == {"ok", "err", "throw"}

\* an LTRIM that keeps one entry too many
Ltrim_KeepsOneMore(list) == SubSeq(list, 1, Min(RecentCap + 1, Len(list)))

\* LTRIM recent_calls 0 199
Ltrim(list) == SubSeq(list, 1, Min(RecentCap, Len(list)))

\* LPUSH recent_calls key
Lpush(list, key) == <<key>> \o list

\* SET key value
KvWrite(records, key, value) ==
  {e \in records : e.key # key} \cup {[key |-> key, value |-> value]}

InitStore ==
  /\ env \in {e \in Envs : e.secret = "" /\ e.twilio}
  /\ pc = "store"
  /\ req = NoRequest
  /\ toolCalls = <<>>
  /\ results = <<>>
  /\ trace = <<>>
  /\ recs = <<>>
  /\ resp = NoResponse
  /\ fnIn = NoDraw
  /\ fnOut = NoOut
  /\ log = <<>>
  /\ sends = NoSends
  /\ \E n \in {0, RecentCap - 1, RecentCap} :
       /\ kvRecent = Prefilled(n)
       /\ pushed = Prefilled(n)
  /\ kvRecords = {}
  /\ persist = [p \in 1..MaxPersists |-> IdlePersist]

handlerVars == <<env, pc, req, toolCalls, results, trace, recs, resp, fnIn, fnOut, log, sends>>

\* the outcome o of the request of invocation p, which goes on at pc next or,
\* when fetch rejected, returns false from the catch
Stepped(p, o, next) ==
  [persist EXCEPT ![p] = [@ EXCEPT !.st = Append(@, o),
                                  !.pc = IF o = "throw" THEN "returned" ELSE next,
                                  !.ret = (next = "returned" /\ o # "throw")]]

\* storeCall(callData) is called: the invocations are numbered as they come
StoreCallBegin ==
  /\ \E p \in DOMAIN persist, callData \in StoreRecords :
       /\ persist[p].pc = "idle"
       /\ \A q \in 1..(p - 1) : persist[q].pc # "idle"
       /\ persist' = [persist EXCEPT ![p] =
                        [pc |-> IF env.kv THEN "set" ELSE "returned",
                         key |-> KeyOf(callData), value |-> callData, st |-> <<>>,
                         ret |-> FALSE]]
  /\ UNCHANGED <<handlerVars, kvRecent, kvRecords, pushed>>

\* await fetch(.../set/key)
KvSet ==
  /\ \E p \in DOMAIN persist, o \in KvStepOutcomes :
       /\ persist[p].pc = "set"
       /\ kvRecords' = IF o = "ok" THEN KvWrite(kvRecords, persist[p].key, persist[p].value)
                       ELSE kvRecords
       /\ persist' = Stepped(p, o, "lpush")
  /\ UNCHANGED <<handlerVars, kvRecent, pushed>>

\* await fetch(.../lpush/recent_calls)
KvLpush ==
  /\ \E p \in DOMAIN persist, o \in KvStepOutcomes :
       /\ persist[p].pc = "lpush"
       /\ kvRecent' = IF o = "ok" THEN Lpush(kvRecent, persist[p].key) ELSE kvRecent
       /\ pushed' = IF o = "ok" THEN Lpush(pushed, persist[p].key) ELSE pushed
       /\ persist' = Stepped(p, o, "ltrim")
  /\ UNCHANGED <<handlerVars, kvRecords>>

\* await fetch(.../ltrim/recent_calls/0/199); return true
KvLtrim ==
  /\ \E p \in DOMAIN persist, o \in KvStepOutcomes :
       /\ persist[p].pc = "ltrim"
       /\ kvRecent' = IF o = "ok" THEN Ltrim(kvRecent) ELSE kvRecent
       /\ persist' = Stepped(p, o, "returned")
  /\ UNCHANGED <<handlerVars, kvRecords, pushed>>

NextStore ==
  \/ StoreCallBegin
  \/ KvSet
  \/ KvLpush
  \/ KvLtrim

SpecStore == InitStore /\ [][NextStore]_vars

\* the step-by-step storeCall returns what the function storeCall returns
StepwiseAgrees ==
  \A p \in DOMAIN persist :
    (persist[p].pc = "returned" /\ Len(persist[p].st) = 3)
      => persist[p].ret = storeCall(env, persist[p].value, persist[p].st).ret

\* C16: storeCall never raises, and it returns true only when the record
\* write, the list push and the list trim all succeeded: a transport error
\* or an error response at any of the three steps, and an unconfigured
\* store, make it return false.
C16_StoredOnlyIfAllSucceeded ==
  \A p \in DOMAIN persist :
    persist[p].pc = "returned"
      => (persist[p].ret <=> (env.kv /\ persist[p].st = <<"ok", "ok", "ok">>))

NoPersistInProgress == \A p \in DOMAIN persist : persist[p].pc \in {"idle", "returned"}

\* the list holds the keys pushed last, newest first
MostRecentFirst ==
  /\ Len(kvRecent) <= Len(pushed)
  /\ kvRecent = SubSeq(pushed, 1, Len(kvRecent))

\* C17 as written: whenever no persist is in progress, also after persists
\* some step of which failed, the recent list holds at most 200 keys, and
\* they are the most recently pushed keys, newest first.
C17_AtMost200 ==
  NoPersistInProgress => (Len(kvRecent) <= RecentCap /\ MostRecentFirst)

\* the invocations whose key was pushed and whose trim was not applied
Untrimmed ==
  {p \in DOMAIN persist :
     /\ Len(persist[p].st) >= 2
     /\ persist[p].st[2] = "ok"
     /\ ~(Len(persist[p].st) = 3 /\ persist[p].st[3] = "ok")}

\* C17 as amended: the recent list always holds the most recently pushed
\* keys, newest first, and a trim that is applied leaves at most 200 of
\* them; a persist whose trim fails leaves its key in excess until a later
\* trim is applied, so that the list holds at most 200 keys plus one for
\* each persist whose push was applied and whose trim was not.
C17_AtMost200PlusUntrimmed ==
  /\ MostRecentFirst
  /\ Len(kvRecent) <= RecentCap + Cardinality(Untrimmed)
  /\ (NoPersistInProgress /\ Untrimmed = {}) => Len(kvRecent) <= RecentCap

\* two persists on a full list, interleaved: the trim of one failed, the
\* trim of the other was applied and cut the list back to 200
C17_Witness ==
  /\ NoPersistInProgress
  /\ Len(pushed) = RecentCap + 2
  /\ Len(kvRecent) = RecentCap
  /\ \E p, q \in DOMAIN persist :
       /\ persist[p].st = <<"ok", "ok", "throw">>
       /\ persist[q].st = <<"ok", "ok", "ok">>

\* no key occurs twice in the recent list
NoDuplicateKey ==
  \A i, j \in DOMAIN kvRecent : i # j => kvRecent[i] # kvRecent[j]

\* a step leaves the value stored under every key as it was
RecordsKept ==
  \A e \in kvRecords : \A f \in kvRecords' : e.key = f.key => e.value = f.value

\* C21: a persisted record is never mutated: the value stored under a key
\* stays the first record written under it (a later persist does not
\* overwrite it), and no key occurs more than once in the recent list, also
\* for two reports of the same call and two bookings with the same booking
\* identifier.
C21_NeverMutated == []NoDuplicateKey /\ [][RecordsKept]_vars

\* the position of the first call of the batch whose arguments are not JSON
FirstMalformed ==
  CHOOSE k \in DOMAIN toolCalls :
    /\ toolCalls[k].args.form = "malformed"
    /\ \A j \in 1..(k - 1) : toolCalls[j].args.form # "malformed"

\* the downstream call was made for the call at position j of the batch
Logged(j, call) == \E i \in DOMAIN log : log[i] = [id |-> toolCalls[j].id, call |-> call]

\* the side effects of the call at position j of the batch took place
SideEffectsLogged(j) ==
  /\ toolCalls[j].name = "send_emergency_alert"
       => (Logged(j, "twilio:owner") /\ Logged(j, "storeCall") /\ Logged(j, "kv:set"))
  /\ toolCalls[j].name = "check_availability" => Logged(j, "cal:v2:slots")
  /\ (toolCalls[j].name = "book_appointment" /\ ~MissingDetails(toolCalls[j].args.fields))
       => Logged(j, "cal:v2:bookings")

\* C22: a tool-call batch is not atomic: when the arguments of the k-th call
\* are a malformed JSON string, the invocation answers 500 {error: "Internal
\* server error"} with no result for any call, the calls after k are never
\* dispatched, and the downstream calls of the calls 1..k-1 have been made
\* and stay made.
C22_BatchNotAtomic ==
  (Answered /\ InBatch /\ ~ArgumentsParse(toolCalls))
    => /\ resp = RespInternal
       /\ Len(results) = FirstMalformed - 1
       /\ \A i \in DOMAIN log : PositionOf(log[i].id) < FirstMalformed
       /\ \A j \in 1..(FirstMalformed - 1) : SideEffectsLogged(j)

\* an alert was sent and stored for the first call, the arguments of the
\* second are malformed, and the invocation answered 500
C22_Witness ==
  /\ Answered
  /\ Len(toolCalls) = 2
  /\ toolCalls[1].name = "send_emergency_alert"
  /\ toolCalls[2].args.form = "malformed"
  /\ resp = RespInternal
  /\ Logged(1, "twilio:owner")
  /\ Logged(1, "kv:set")

====
